---- MODULE Spec2Model ----
(***************************************************************************)
(* The debt payoff simulation engine of src/src/app/layout.tsx:            *)
(* rankAccounts (the Ranker) and simulatePayoff (the Month Stepper and the *)
(* Simulation Driver in one loop).                                         *)
(*                                                                         *)
(* Money is a JavaScript number in the source.  Here it is fixed point:    *)
(* one unit is 0.00001 dollars, so the two thresholds of the source are    *)
(* whole numbers (0.00001 = 1 unit, 0.01 = 1000 units).  Interest is the   *)
(* product balance * apr / 100 / 12 rounded down to a whole unit.          *)
(*                                                                         *)
(* Every variable of one call is a function of the call (k \in Runs), so   *)
(* that one call (Spec) and two calls on the same account list (PairSpec)  *)
(* are the same actions.                                                   *)
(***************************************************************************)
EXTENDS Integers, Sequences, FiniteSets, TLC

VARIABLES
    accountsInput,  \* the caller's account list (shared by the calls)
    style,          \* [k] "avalanche" | "snowball"
    extraMonthly,   \* [k] the extra budget
    monthsCap,      \* [k] options.monthsCap
    wantMonths,     \* [k] options.wantMonths
    st,             \* [k] the working copy of the accounts
    initialOrder,   \* [k] rank at start
    totalInterest,  \* [k]
    monthsToPayoff, \* [k]
    monthPlans,     \* [k] the recorded month rows
    stalled,        \* [k]
    m,              \* [k] the loop counter
    interestById,   \* [k] this month's interest, by account id
    allocations,    \* [k] this month's allocation rows
    totalMin,       \* [k]
    totalExtra,     \* [k]
    extraLeft,      \* [k] the remaining extra pool
    order,          \* [k] this month's ranking
    oi,             \* [k] position of the extra loop in order
    pc,             \* [k] position of the call
    result,         \* [k] the returned SimResult
    debtLog,        \* [k] history: total debt after the clone and after each month
    startBal        \* [k] history: the balances at the top of the month being stepped

vars == <<accountsInput, style, extraMonthly, monthsCap, wantMonths, st,
          initialOrder, totalInterest, monthsToPayoff, monthPlans, stalled, m,
          interestById, allocations, totalMin, totalExtra, extraLeft, order,
          oi, pc, result, debtLog, startBal>>

inputVars == <<accountsInput, style, extraMonthly, monthsCap, wantMonths>>
monthVars == <<interestById, allocations, totalMin, totalExtra, extraLeft, order, oi>>

Runs == DOMAIN pc

(***************************************************************************)
(* Numbers of the source, in units of 0.00001.                             *)
(***************************************************************************)
EPS == 1
CENT == 1000
RateDen == 1200

(***************************************************************************)
(* Bounds of the model.                                                    *)
(***************************************************************************)
MaxAccts == 2
MaxCap == 3
MaxWant == 2
\* the same for the specifications with two calls or with fairness
SmallAccts == 2
SmallCap == 2
SmallWant == 1

Styles == {"avalanche", "snowball"}

Max(a, b) == IF a >= b THEN a ELSE b
Min(a, b) == IF a <= b THEN a ELSE b

clamp(n, a, b) == Max(a, Min(b, n))

RECURSIVE SumTo(_, _)
SumTo(s, n) == IF n = 0 THEN 0 ELSE SumTo(s, n - 1) + s[n]

sum(nums) == SumTo(nums, Len(nums))

\* aprPct / 100 / 12 as a fraction
monthlyRate(aprPct) == [num |-> Max(0, aprPct), den |-> RateDen]

\* balance * rate, rounded down to a unit; split so that the product stays small
TimesRate(b, r) == (b \div r.den) * r.num + ((b % r.den) * r.num) \div r.den


(***************************************************************************)
(* rankAccounts                                                            *)
(***************************************************************************)
\* mutant of isAlive: the threshold forgotten
isAlivePositive(a) == a.balance > 0

isAlive(a) == a.balance > EPS

\* mutant of compareAccounts: avalanche without its tie-break
compareAccountsNoTie(a, b, sty) ==
    IF sty = "avalanche"
    THEN b.apr - a.apr
    ELSE IF a.balance # b.balance THEN a.balance - b.balance ELSE b.apr - a.apr

\* mutant of compareAccounts: snowball with the larger balance first
compareAccountsLargest(a, b, sty) ==
    IF sty = "avalanche"
    THEN IF b.apr # a.apr THEN b.apr - a.apr ELSE b.balance - a.balance
    ELSE IF a.balance # b.balance THEN b.balance - a.balance ELSE b.apr - a.apr

\* the comparator of rankAccounts: negative puts a first
compareAccounts(a, b, sty) ==
    IF sty = "avalanche"
    THEN IF b.apr # a.apr THEN b.apr - a.apr ELSE b.balance - a.balance
    ELSE IF a.balance # b.balance THEN a.balance - b.balance ELSE b.apr - a.apr

\* the comparator of the row's allocation sort
compareRows(a, b) == b.total - a.total

(***************************************************************************)
(* Array.prototype.sort: a stable sort by the comparator, as insertion     *)
(* sort.  An element goes before the first one the comparator puts after   *)
(* it, so elements that compare equal keep their input order.  The         *)
(* comparator is named by its use: a style for rankAccounts, "total" for   *)
(* the allocation rows.                                                    *)
(***************************************************************************)
comparator(a, b, by) ==
    IF by = "total" THEN compareRows(a, b) ELSE compareAccounts(a, b, by)

InsertSorted(r, e, by) ==
    LET later == {i \in 1..Len(r) : comparator(r[i], e, by) > 0}
        p == IF later = {} THEN Len(r) + 1
             ELSE CHOOSE i \in later : \A j \in later : i <= j
    IN SubSeq(r, 1, p - 1) \o <<e>> \o SubSeq(r, p, Len(r))

RECURSIVE SortTo(_, _, _)
SortTo(s, n, by) ==
    IF n = 0 THEN <<>> ELSE InsertSorted(SortTo(s, n - 1, by), s[n], by)

StableSort(s, by) == SortTo(s, Len(s), by)

\* mutant of rankAccounts: the style is not looked at, the order is always
\* the avalanche one
rankAccountsOneStyle(accts, sty) ==
    LET alive == SelectSeq(accts, isAlive)
        sorted == StableSort(alive, "avalanche")
    IN [i \in 1..Len(sorted) |-> sorted[i].id]

rankAccounts(accts, sty) ==
    LET alive == SelectSeq(accts, isAlive)
        sorted == StableSort(alive, sty)
    IN [i \in 1..Len(sorted) |-> sorted[i].id]

(***************************************************************************)
(* simulatePayoff: helpers                                                 *)
(***************************************************************************)
\* mutant of cloneAccount: the balance is copied as it comes
cloneAccountRawBalance(a) ==
    [id |-> a.id, balance |-> a.balance, apr |-> Max(0, a.apr),
     minPay |-> Max(0, a.minPay)]

\* the working copy of one input account
cloneAccount(a) ==
    [id |-> a.id, balance |-> Max(0, a.balance), apr |-> Max(0, a.apr),
     minPay |-> Max(0, a.minPay)]

keepAccount(a) == a.balance > EPS \/ a.minPay > 0

cloneAccounts(input) ==
    SelectSeq([i \in 1..Len(input) |-> cloneAccount(input[i])], keepAccount)

totalDebtNow(s) == sum([i \in 1..Len(s) |-> s[i].balance])

\* mutant of allPaid: paid off only at exactly zero
allPaidZero(s) == totalDebtNow(s) <= 0

allPaid(s) == totalDebtNow(s) <= CENT

\* mutant of loopCond: the loop runs one month past the cap
loopCondOffByOne(mm, cap) == mm <= cap + 1

loopCond(mm, cap) == mm <= cap

\* st.find((x) => x.id === id): the first index with that id, 0 if none
findIndex(s, id) ==
    LET hits == {i \in 1..Len(s) : s[i].id = id}
    IN IF hits = {} THEN 0 ELSE CHOOSE i \in hits : \A j \in hits : i <= j

\* mutant of accrued: interest is charged on every balance
accruedAlways(a) == TimesRate(a.balance, monthlyRate(a.apr))

\* step 1 for one account: the interest it accrues this month
accrued(a) == IF a.balance <= CENT THEN 0 ELSE TimesRate(a.balance, monthlyRate(a.apr))

\* mutant of minPaid: the minimum is paid whole, whatever the balance
minPaidUnclamped(a) == IF a.balance <= CENT THEN 0 ELSE a.minPay

\* mutant of minPaid: a minimum larger than the balance is not paid at all
minPaidUnlessLarger(a) == IF a.balance <= CENT \/ a.minPay > a.balance THEN 0 ELSE a.minPay

\* step 2 for one account: the minimum it pays this month
minPaid(a) == IF a.balance <= CENT THEN 0 ELSE clamp(a.minPay, 0, a.balance)

\* mutant of extraPaid: the target takes the whole pool, nothing rolls over
extraPaidAll(left, a) == IF a.balance <= CENT THEN 0 ELSE left

\* step 3 for one target: what it gets out of the pool
extraPaid(left, a) == IF a.balance <= CENT THEN 0 ELSE clamp(left, 0, a.balance)

extraPool(extra) == Max(0, extra)

hadDebt(input) == \E i \in 1..Len(input) : input[i].balance > CENT

\* mutant of hasProgress: only the minimums count as progress
hasProgressMinOnly(tMin, tExtra) == tMin > EPS

\* mutant of hasProgress: a month that paid nothing counts as progress
hasProgressAtLeast(tMin, tExtra) == tMin + tExtra >= 0

hasProgress(tMin, tExtra) == tMin + tExtra > EPS

\* mutant of rowActive: the rows without a payment are kept in the month row
rowActiveAll(r) == r.min + r.extra >= 0

rowActive(r) == r.min + r.extra > EPS

\* mutant of monthPlan: the row's totalPaid leaves the extra out
monthPlanMinOnly(mm, allocs, tMin, tExtra, interests, s) ==
    [monthIndex |-> mm,
     allocations |-> StableSort(SelectSeq(allocs, rowActive), "total"),
     totalMin |-> tMin,
     totalExtra |-> tExtra,
     totalPaid |-> tMin,
     totalInterest |-> sum(interests),
     remainingDebt |-> totalDebtNow(s)]

monthPlan(mm, allocs, tMin, tExtra, interests, s) ==
    [monthIndex |-> mm,
     allocations |-> StableSort(SelectSeq(allocs, rowActive), "total"),
     totalMin |-> tMin,
     totalExtra |-> tExtra,
     totalPaid |-> tMin + tExtra,
     totalInterest |-> sum(interests),
     remainingDebt |-> totalDebtNow(s)]

\* mutant of recordPlan: the window test is off by one
recordPlanOffByOne(plans, want, row) == IF Len(plans) <= want THEN Append(plans, row) ELSE plans

recordPlan(plans, want, row) == IF Len(plans) < want THEN Append(plans, row) ELSE plans

\* mutant of capStalled: the cap rule without the paid-off test
capStalledNoPaidTest(s, mtp, cap) == mtp = cap

capStalled(s, mtp, cap) == ~allPaid(s) /\ mtp = cap

NoResult ==
    [monthsToPayoff |-> -1, totalInterest |-> 0, firstTargetIds |-> <<>>,
     monthPlans |-> <<>>, stalled |-> FALSE]

(***************************************************************************)
(* The inputs the model draws from.                                        *)
(***************************************************************************)
\* balance, apr and minPay of an input account, in units / percent / units
AccountShapes ==
    { [balance |-> 100000, apr |-> 24, minPay |-> 60000],  \* pays off in two months
      [balance |-> 100000, apr |-> 24, minPay |-> 0],      \* never paid by minimums
      [balance |-> 100000, apr |-> 12, minPay |-> 500],    \* minimum below interest
      [balance |-> 200000, apr |-> 24, minPay |-> 60000],
      [balance |-> 0,      apr |-> 24, minPay |-> 60000],  \* no balance, kept by the clone
      [balance |-> 600,    apr |-> 24, minPay |-> 60000],  \* above 0.00001, below 0.01
      [balance |-> 1,      apr |-> 24, minPay |-> 0] }     \* exactly 0.00001

Extras == {0, 70000}

withIds(shapes) ==
    [i \in 1..Len(shapes) |->
        [id |-> i, balance |-> shapes[i].balance, apr |-> shapes[i].apr,
         minPay |-> shapes[i].minPay]]

AccountLists(n) == {withIds(sh) : sh \in UNION {[1..j -> AccountShapes] : j \in 0..n}}

\* the accounts of the worked scenarios, in the same units: 500 at 20% with
\* no minimum; 1000 at 24% with a minimum of 50; A (100, minimum 20) and
\* B (5000, minimum 50) at each pair of the rates 5% and 25%; and the last
\* pair with A already paid off
ScenarioRates == {5, 25}

accountA(rate) == [balance |-> 10000000, apr |-> rate, minPay |-> 2000000]

accountB(rate) == [balance |-> 500000000, apr |-> rate, minPay |-> 5000000]

\* accounts at the thresholds, without interest: 0.01001 with a minimum of
\* 0.00001, and 0.006 with a minimum of 0.60
nearCent == [balance |-> 1001, apr |-> 0, minPay |-> 1]

belowCent == [balance |-> 600, apr |-> 0, minPay |-> 60000]

ScenarioLists ==
    { withIds(<<[balance |-> 50000000, apr |-> 20, minPay |-> 0]>>),
      withIds(<<[balance |-> 100000000, apr |-> 24, minPay |-> 5000000]>>),
      withIds(<<[accountA(5) EXCEPT !.balance = 0], accountB(25)>>),
      withIds(<<nearCent>>),
      withIds(<<belowCent, belowCent>>) }
    \cup { withIds(<<accountA(ra), accountB(rb)>>) : ra \in ScenarioRates, rb \in ScenarioRates }

\* no extra, or the extra of 200 of the rollover scenario
ScenarioExtras == {0, 20000000}

InitWith(R, lists, extras, caps, wants) ==
    /\ accountsInput \in lists
    /\ style \in [R -> Styles]
    /\ extraMonthly \in [R -> extras]
    /\ monthsCap \in [R -> caps]
    /\ wantMonths \in [R -> wants]
    /\ st = [k \in R |-> <<>>]
    /\ initialOrder = [k \in R |-> <<>>]
    /\ totalInterest = [k \in R |-> 0]
    /\ monthsToPayoff = [k \in R |-> 0]
    /\ monthPlans = [k \in R |-> <<>>]
    /\ stalled = [k \in R |-> FALSE]
    /\ m = [k \in R |-> 1]
    /\ interestById = [k \in R |-> <<>>]
    /\ allocations = [k \in R |-> <<>>]
    /\ totalMin = [k \in R |-> 0]
    /\ totalExtra = [k \in R |-> 0]
    /\ extraLeft = [k \in R |-> 0]
    /\ order = [k \in R |-> <<>>]
    /\ oi = [k \in R |-> 1]
    /\ pc = [k \in R |-> "init"]
    /\ result = [k \in R |-> NoResult]
    /\ debtLog = [k \in R |-> <<>>]
    /\ startBal = [k \in R |-> <<>>]

InitFor(R, lists, caps, wants) == InitWith(R, lists, Extras, caps, wants)

Init ==
    \/ InitFor({1}, AccountLists(MaxAccts), 0..MaxCap, 0..MaxWant)
    \/ InitWith({1}, ScenarioLists, ScenarioExtras, 0..MaxCap, 0..MaxWant)

(***************************************************************************)
(* simulatePayoff, one action per step of the call.                        *)
(***************************************************************************)
\* mutant of Clone: the month rows are one list of the module, emptied by
\* every call that starts
CloneSharedPlans(k) ==
    /\ pc[k] = "init"
    /\ st' = [st EXCEPT ![k] = cloneAccounts(accountsInput)]
    /\ initialOrder' = [initialOrder EXCEPT ![k] = rankAccounts(st'[k], style[k])]
    /\ totalInterest' = [totalInterest EXCEPT ![k] = 0]
    /\ monthsToPayoff' = [monthsToPayoff EXCEPT ![k] = 0]
    /\ monthPlans' = [j \in Runs |-> <<>>]
    /\ stalled' = [stalled EXCEPT ![k] = FALSE]
    /\ m' = [m EXCEPT ![k] = 1]
    /\ debtLog' = [debtLog EXCEPT ![k] = <<totalDebtNow(st'[k])>>]
    /\ pc' = [pc EXCEPT ![k] = "loop"]
    /\ UNCHANGED <<inputVars, monthVars, result, startBal>>

\* lines 268-291: clone the accounts, rank them, zero the totals
Clone(k) ==
    /\ pc[k] = "init"
    /\ st' = [st EXCEPT ![k] = cloneAccounts(accountsInput)]
    /\ initialOrder' = [initialOrder EXCEPT ![k] = rankAccounts(st'[k], style[k])]
    /\ totalInterest' = [totalInterest EXCEPT ![k] = 0]
    /\ monthsToPayoff' = [monthsToPayoff EXCEPT ![k] = 0]
    /\ monthPlans' = [monthPlans EXCEPT ![k] = <<>>]
    /\ stalled' = [stalled EXCEPT ![k] = FALSE]
    /\ m' = [m EXCEPT ![k] = 1]
    /\ debtLog' = [debtLog EXCEPT ![k] = <<totalDebtNow(st'[k])>>]
    /\ pc' = [pc EXCEPT ![k] = "loop"]
    /\ UNCHANGED <<inputVars, monthVars, result, startBal>>

\* line 293: the loop condition fails
LoopExit(k) ==
    /\ pc[k] = "loop"
    /\ ~loopCond(m[k], monthsCap[k])
    /\ pc' = [pc EXCEPT ![k] = "after"]
    /\ UNCHANGED <<inputVars, monthVars, st, initialOrder, totalInterest,
                   monthsToPayoff, monthPlans, stalled, m, result, debtLog,
                   startBal>>

\* mutant of BreakPaid: the month found paid at its top is counted
BreakPaidCountsMonth(k) ==
    /\ pc[k] = "loop"
    /\ loopCond(m[k], monthsCap[k])
    /\ allPaid(st[k])
    /\ monthsToPayoff' = [monthsToPayoff EXCEPT ![k] = m[k]]
    /\ pc' = [pc EXCEPT ![k] = "after"]
    /\ UNCHANGED <<inputVars, monthVars, st, initialOrder, totalInterest,
                   monthPlans, stalled, m, result, debtLog,
                   startBal>>

\* lines 294-297: paid off at the top of an iteration
BreakPaid(k) ==
    /\ pc[k] = "loop"
    /\ loopCond(m[k], monthsCap[k])
    /\ allPaid(st[k])
    /\ monthsToPayoff' = [monthsToPayoff EXCEPT ![k] = m[k] - 1]
    /\ pc' = [pc EXCEPT ![k] = "after"]
    /\ UNCHANGED <<inputVars, monthVars, st, initialOrder, totalInterest,
                   monthPlans, stalled, m, result, debtLog,
                   startBal>>

\* mutant of Accrue: the working accounts are the caller's objects, so the
\* accrual is written to the caller's list too
AccrueAliased(k) ==
    /\ pc[k] = "loop"
    /\ loopCond(m[k], monthsCap[k])
    /\ ~allPaid(st[k])
    /\ interestById' = [interestById EXCEPT ![k] =
            [i \in 1..Len(st[k]) |-> accrued(st[k][i])]]
    /\ st' = [st EXCEPT ![k] =
            [i \in 1..Len(st[k]) |->
                [st[k][i] EXCEPT !.balance = @ + accrued(st[k][i])]]]
    /\ accountsInput' =
            [i \in 1..Len(accountsInput) |->
                LET j == findIndex(st'[k], accountsInput[i].id)
                IN IF j = 0 THEN accountsInput[i]
                   ELSE [accountsInput[i] EXCEPT !.balance = st'[k][j].balance]]
    /\ totalInterest' = [totalInterest EXCEPT ![k] = @ + sum(interestById'[k])]
    /\ startBal' = [startBal EXCEPT ![k] = [i \in 1..Len(st[k]) |-> st[k][i].balance]]
    /\ pc' = [pc EXCEPT ![k] = "min"]
    /\ UNCHANGED <<style, extraMonthly, monthsCap, wantMonths, allocations,
                   totalMin, totalExtra, extraLeft, order, oi, initialOrder,
                   monthsToPayoff, monthPlans, stalled, m, result, debtLog>>

\* lines 299-310: accrue interest
Accrue(k) ==
    /\ pc[k] = "loop"
    /\ loopCond(m[k], monthsCap[k])
    /\ ~allPaid(st[k])
    /\ interestById' = [interestById EXCEPT ![k] = [i \in 1..Len(st[k]) |-> accrued(st[k][i])]]
    /\ st' = [st EXCEPT ![k] = [i \in 1..Len(st[k]) |->
                [st[k][i] EXCEPT !.balance = @ + accrued(st[k][i])]]]
    /\ totalInterest' = [totalInterest EXCEPT ![k] = @ + sum(interestById'[k])]
    /\ startBal' = [startBal EXCEPT ![k] = [i \in 1..Len(st[k]) |-> st[k][i].balance]]
    /\ pc' = [pc EXCEPT ![k] = "min"]
    /\ UNCHANGED <<inputVars, allocations, totalMin, totalExtra, extraLeft,
                   order, oi, initialOrder, monthsToPayoff, monthPlans,
                   stalled, m, result, debtLog>>

\* mutant of PayMinimums: the sort is not stable, so accounts the comparator
\* does not separate come out in either order
PayMinimumsUnstable(k) ==
    /\ pc[k] = "min"
    /\ allocations' = [allocations EXCEPT ![k] =
            [i \in 1..Len(st[k]) |->
                [accountId |-> st[k][i].id, min |-> minPaid(st[k][i]),
                 extra |-> 0, total |-> minPaid(st[k][i])]]]
    /\ st' = [st EXCEPT ![k] =
            [i \in 1..Len(st[k]) |->
                [st[k][i] EXCEPT !.balance = @ - minPaid(st[k][i])]]]
    /\ totalMin' = [totalMin EXCEPT ![k] =
            sum([i \in 1..Len(st[k]) |-> minPaid(st[k][i])])]
    /\ totalExtra' = [totalExtra EXCEPT ![k] = 0]
    /\ extraLeft' = [extraLeft EXCEPT ![k] = extraPool(extraMonthly[k])]
    /\ \E p \in [1..Len(st[k]) -> 1..Len(st[k])] :
        /\ \A i, j \in 1..Len(st[k]) : p[i] = p[j] => i = j
        /\ order' = [order EXCEPT ![k] =
                rankAccounts([i \in 1..Len(st[k]) |-> st'[k][p[i]]], style[k])]
    /\ oi' = [oi EXCEPT ![k] = 1]
    /\ pc' = [pc EXCEPT ![k] = "extra"]
    /\ UNCHANGED <<inputVars, interestById, initialOrder, totalInterest,
                   monthsToPayoff, monthPlans, stalled, m, result, debtLog,
                   startBal>>

\* mutant of PayMinimums: the extra follows the order ranked at the start
PayMinimumsFrozen(k) ==
    /\ pc[k] = "min"
    /\ allocations' = [allocations EXCEPT ![k] = [i \in 1..Len(st[k]) |->
                [accountId |-> st[k][i].id, min |-> minPaid(st[k][i]),
                 extra |-> 0, total |-> minPaid(st[k][i])]]]
    /\ st' = [st EXCEPT ![k] = [i \in 1..Len(st[k]) |->
                [st[k][i] EXCEPT !.balance = @ - minPaid(st[k][i])]]]
    /\ totalMin' = [totalMin EXCEPT ![k] = sum([i \in 1..Len(st[k]) |-> minPaid(st[k][i])])]
    /\ totalExtra' = [totalExtra EXCEPT ![k] = 0]
    /\ extraLeft' = [extraLeft EXCEPT ![k] = extraPool(extraMonthly[k])]
    /\ order' = [order EXCEPT ![k] = initialOrder[k]]
    /\ oi' = [oi EXCEPT ![k] = 1]
    /\ pc' = [pc EXCEPT ![k] = "extra"]
    /\ UNCHANGED <<inputVars, interestById, initialOrder, totalInterest,
                   monthsToPayoff, monthPlans, stalled, m, result, debtLog,
                   startBal>>

\* mutant of PayMinimums: the minimum is clamped to the balance of before
\* the accrual, as if it were paid first
PayMinimumsBeforeAccrual(k) ==
    /\ pc[k] = "min"
    /\ LET paid == [i \in 1..Len(st[k]) |->
                        minPaid([st[k][i] EXCEPT !.balance = startBal[k][i]])]
       IN /\ allocations' = [allocations EXCEPT ![k] = [i \in 1..Len(st[k]) |->
                    [accountId |-> st[k][i].id, min |-> paid[i],
                     extra |-> 0, total |-> paid[i]]]]
          /\ st' = [st EXCEPT ![k] = [i \in 1..Len(st[k]) |->
                    [st[k][i] EXCEPT !.balance = @ - paid[i]]]]
          /\ totalMin' = [totalMin EXCEPT ![k] = sum(paid)]
    /\ totalExtra' = [totalExtra EXCEPT ![k] = 0]
    /\ extraLeft' = [extraLeft EXCEPT ![k] = extraPool(extraMonthly[k])]
    /\ order' = [order EXCEPT ![k] = rankAccounts(st'[k], style[k])]
    /\ oi' = [oi EXCEPT ![k] = 1]
    /\ pc' = [pc EXCEPT ![k] = "extra"]
    /\ UNCHANGED <<inputVars, interestById, initialOrder, totalInterest,
                   monthsToPayoff, monthPlans, stalled, m, result, debtLog,
                   startBal>>

\* mutant of PayMinimums: what was left of last month's pool is added to
\* this month's
PayMinimumsCarry(k) ==
    /\ pc[k] = "min"
    /\ allocations' = [allocations EXCEPT ![k] = [i \in 1..Len(st[k]) |->
                [accountId |-> st[k][i].id, min |-> minPaid(st[k][i]),
                 extra |-> 0, total |-> minPaid(st[k][i])]]]
    /\ st' = [st EXCEPT ![k] = [i \in 1..Len(st[k]) |->
                [st[k][i] EXCEPT !.balance = @ - minPaid(st[k][i])]]]
    /\ totalMin' = [totalMin EXCEPT ![k] = sum([i \in 1..Len(st[k]) |-> minPaid(st[k][i])])]
    /\ totalExtra' = [totalExtra EXCEPT ![k] = 0]
    /\ extraLeft' = [extraLeft EXCEPT ![k] = @ + extraPool(extraMonthly[k])]
    /\ order' = [order EXCEPT ![k] = rankAccounts(st'[k], style[k])]
    /\ oi' = [oi EXCEPT ![k] = 1]
    /\ pc' = [pc EXCEPT ![k] = "extra"]
    /\ UNCHANGED <<inputVars, interestById, initialOrder, totalInterest,
                   monthsToPayoff, monthPlans, stalled, m, result, debtLog,
                   startBal>>

\* lines 312-330: pay the minimums, then open the extra pool and re-rank
PayMinimums(k) ==
    /\ pc[k] = "min"
    /\ allocations' = [allocations EXCEPT ![k] = [i \in 1..Len(st[k]) |->
                [accountId |-> st[k][i].id, min |-> minPaid(st[k][i]),
                 extra |-> 0, total |-> minPaid(st[k][i])]]]
    /\ st' = [st EXCEPT ![k] = [i \in 1..Len(st[k]) |->
                [st[k][i] EXCEPT !.balance = @ - minPaid(st[k][i])]]]
    /\ totalMin' = [totalMin EXCEPT ![k] = sum([i \in 1..Len(st[k]) |-> minPaid(st[k][i])])]
    /\ totalExtra' = [totalExtra EXCEPT ![k] = 0]
    /\ extraLeft' = [extraLeft EXCEPT ![k] = extraPool(extraMonthly[k])]
    /\ order' = [order EXCEPT ![k] = rankAccounts(st'[k], style[k])]
    /\ oi' = [oi EXCEPT ![k] = 1]
    /\ pc' = [pc EXCEPT ![k] = "extra"]
    /\ UNCHANGED <<inputVars, interestById, initialOrder, totalInterest,
                   monthsToPayoff, monthPlans, stalled, m, result, debtLog,
                   startBal>>

\* lines 333-348: one iteration of the loop over this month's order
PayExtra(k) ==
    /\ pc[k] = "extra"
    /\ oi[k] <= Len(order[k])
    /\ ~(extraLeft[k] <= EPS)
    /\ LET id == order[k][oi[k]]
           ai == findIndex(st[k], id)
           ri == findIndex([i \in 1..Len(allocations[k]) |->
                               [id |-> allocations[k][i].accountId]], id)
           pay == IF ai = 0 THEN 0 ELSE extraPaid(extraLeft[k], st[k][ai])
       IN /\ st' = IF ai = 0 THEN st
                   ELSE [st EXCEPT ![k] = [st[k] EXCEPT ![ai].balance = @ - pay]]
          /\ extraLeft' = [extraLeft EXCEPT ![k] = @ - pay]
          /\ totalExtra' = [totalExtra EXCEPT ![k] = @ + pay]
          /\ allocations' =
                IF ri = 0 \/ ai = 0 \/ st[k][ai].balance <= CENT THEN allocations
                ELSE [allocations EXCEPT ![k] = [allocations[k] EXCEPT ![ri].extra = @ + pay,
                                               ![ri].total = @ + pay]]
    /\ oi' = [oi EXCEPT ![k] = @ + 1]
    /\ UNCHANGED <<inputVars, interestById, totalMin, order, initialOrder,
                   totalInterest, monthsToPayoff, monthPlans, stalled, m, pc,
                   result, debtLog,
                   startBal>>

\* mutant of EndMonth: the month that reaches the cap is not written to
\* monthsToPayoff
EndMonthNoCapNote(k) ==
    /\ pc[k] = "extra"
    /\ (oi[k] > Len(order[k]) \/ extraLeft[k] <= EPS)
    /\ stalled' = [stalled EXCEPT ![k] = IF m[k] = 1 /\ hadDebt(accountsInput)
                        /\ ~hasProgress(totalMin[k], totalExtra[k])
            THEN TRUE ELSE @]
    /\ monthPlans' = [monthPlans EXCEPT ![k] = recordPlan(@, wantMonths[k],
                monthPlan(m[k], allocations[k], totalMin[k], totalExtra[k],
                          interestById[k], st[k]))]
    /\ debtLog' = [debtLog EXCEPT ![k] = Append(@, totalDebtNow(st[k]))]
    /\ IF allPaid(st[k])
       THEN /\ monthsToPayoff' = [monthsToPayoff EXCEPT ![k] = m[k]]
            /\ pc' = [pc EXCEPT ![k] = "after"]
            /\ m' = m
       ELSE /\ monthsToPayoff' = monthsToPayoff
            /\ pc' = [pc EXCEPT ![k] = "loop"]
            /\ m' = [m EXCEPT ![k] = @ + 1]
    /\ UNCHANGED <<inputVars, monthVars, st, initialOrder, totalInterest, result, startBal>>

\* mutant of EndMonth: the stall check is made every month and asks for
\* payments above the month's interest
EndMonthStallAnyMonth(k) ==
    /\ pc[k] = "extra"
    /\ (oi[k] > Len(order[k]) \/ extraLeft[k] <= EPS)
    /\ stalled' = [stalled EXCEPT ![k] = IF hadDebt(accountsInput)
                        /\ ~hasProgress(totalMin[k] - sum(interestById[k]), totalExtra[k])
            THEN TRUE ELSE @]
    /\ monthPlans' = [monthPlans EXCEPT ![k] = recordPlan(@, wantMonths[k],
                monthPlan(m[k], allocations[k], totalMin[k], totalExtra[k],
                          interestById[k], st[k]))]
    /\ debtLog' = [debtLog EXCEPT ![k] = Append(@, totalDebtNow(st[k]))]
    /\ IF allPaid(st[k])
       THEN /\ monthsToPayoff' = [monthsToPayoff EXCEPT ![k] = m[k]]
            /\ pc' = [pc EXCEPT ![k] = "after"]
            /\ m' = m
       ELSE /\ monthsToPayoff' = [monthsToPayoff EXCEPT ![k] = IF m[k] = monthsCap[k] THEN monthsCap[k] ELSE @]
            /\ pc' = [pc EXCEPT ![k] = "loop"]
            /\ m' = [m EXCEPT ![k] = @ + 1]
    /\ UNCHANGED <<inputVars, monthVars, st, initialOrder, totalInterest, result, startBal>>

\* lines 350-379: the month-1 stall check, the month row, the payoff test
EndMonth(k) ==
    /\ pc[k] = "extra"
    /\ (oi[k] > Len(order[k]) \/ extraLeft[k] <= EPS)
    /\ stalled' = [stalled EXCEPT ![k] = IF m[k] = 1 /\ hadDebt(accountsInput)
                        /\ ~hasProgress(totalMin[k], totalExtra[k])
            THEN TRUE ELSE @]
    /\ monthPlans' = [monthPlans EXCEPT ![k] = recordPlan(@, wantMonths[k],
                monthPlan(m[k], allocations[k], totalMin[k], totalExtra[k],
                          interestById[k], st[k]))]
    /\ debtLog' = [debtLog EXCEPT ![k] = Append(@, totalDebtNow(st[k]))]
    /\ IF allPaid(st[k])
       THEN /\ monthsToPayoff' = [monthsToPayoff EXCEPT ![k] = m[k]]
            /\ pc' = [pc EXCEPT ![k] = "after"]
            /\ m' = m
       ELSE /\ monthsToPayoff' = [monthsToPayoff EXCEPT ![k] = IF m[k] = monthsCap[k] THEN monthsCap[k] ELSE @]
            /\ pc' = [pc EXCEPT ![k] = "loop"]
            /\ m' = [m EXCEPT ![k] = @ + 1]
    /\ UNCHANGED <<inputVars, monthVars, st, initialOrder, totalInterest, result, startBal>>

\* mutant of Return: the order returned is the one of the last month stepped
ReturnLastOrder(k) ==
    /\ pc[k] = "after"
    /\ stalled' = [stalled EXCEPT ![k] = IF capStalled(st[k], monthsToPayoff[k], monthsCap[k]) THEN TRUE ELSE @]
    /\ result' = [result EXCEPT ![k] = [monthsToPayoff |-> monthsToPayoff[k],
             totalInterest |-> totalInterest[k],
             firstTargetIds |-> IF Len(debtLog[k]) <= 1 THEN initialOrder[k] ELSE order[k],
             monthPlans |-> monthPlans[k],
             stalled |-> stalled'[k]]]
    /\ pc' = [pc EXCEPT ![k] = "done"]
    /\ UNCHANGED <<inputVars, monthVars, st, initialOrder, totalInterest,
                   monthsToPayoff, monthPlans, m, debtLog, startBal>>

\* lines 381-390: the cap rule and the result
Return(k) ==
    /\ pc[k] = "after"
    /\ stalled' = [stalled EXCEPT ![k] = IF capStalled(st[k], monthsToPayoff[k], monthsCap[k]) THEN TRUE ELSE @]
    /\ result' = [result EXCEPT ![k] = [monthsToPayoff |-> monthsToPayoff[k],
             totalInterest |-> totalInterest[k],
             firstTargetIds |-> initialOrder[k],
             monthPlans |-> monthPlans[k],
             stalled |-> stalled'[k]]]
    /\ pc' = [pc EXCEPT ![k] = "done"]
    /\ UNCHANGED <<inputVars, monthVars, st, initialOrder, totalInterest,
                   monthsToPayoff, monthPlans, m, debtLog,
                   startBal>>

\* the accounts of the smaller specifications
SmallShapes ==
    { [balance |-> 100000, apr |-> 24, minPay |-> 60000],
      [balance |-> 100000, apr |-> 24, minPay |-> 0],
      [balance |-> 100000, apr |-> 12, minPay |-> 500],
      [balance |-> 200000, apr |-> 24, minPay |-> 60000] }

SmallLists(n) == {withIds(sh) : sh \in UNION {[1..j -> SmallShapes] : j \in 0..n}}

\* one call, for the properties that need fairness; the window is the
\* largest one, it has no part in the control of the loop
InitFair ==
    \/ InitFor({1}, SmallLists(SmallAccts), 0..SmallCap, {SmallWant})
    \/ InitWith({1}, ScenarioLists, ScenarioExtras, 0..SmallCap, {SmallWant})

\* two calls on the same account list with the same extra and options, as
\* the dashboard makes them (lines 975-983); the styles are free
InitPair ==
    /\ InitFor({1, 2}, SmallLists(SmallAccts), 0..SmallCap, 0..SmallWant)
    /\ extraMonthly[1] = extraMonthly[2]
    /\ monthsCap[1] = monthsCap[2]
    /\ wantMonths[1] = wantMonths[2]

\* two calls on the same account list that differ in the window only, as the
\* dashboard (lines 975-983, wantMonths 6 or 1) and the account card (line
\* 1237, wantMonths 12) make them; the call with the smaller window is call 1
InitWindow ==
    /\ InitFor({1, 2}, SmallLists(SmallAccts), 0..SmallCap, 0..MaxWant)
    /\ style[1] = style[2]
    /\ extraMonthly[1] = extraMonthly[2]
    /\ monthsCap[1] = monthsCap[2]
    /\ wantMonths[1] < wantMonths[2]

\* accounts and an extra budget as nothing upstream has checked them: a
\* negative balance, rate or minimum, alone and together, beside a valid one
RawShapes ==
    { [balance |-> -100000, apr |-> 24,  minPay |-> 60000],
      [balance |-> 100000,  apr |-> -12, minPay |-> 60000],
      [balance |-> 100000,  apr |-> 24,  minPay |-> -500],
      [balance |-> -100000, apr |-> -12, minPay |-> -500],
      [balance |-> 200000,  apr |-> 12,  minPay |-> 60000] }

RawLists(n) == {withIds(sh) : sh \in UNION {[1..j -> RawShapes] : j \in 0..n}}

RawExtras == {-70000, 0, 70000}

\* one call on unchecked input
InitRaw == InitWith({1}, RawLists(SmallAccts), RawExtras, 0..SmallCap, 0..SmallWant)

Next ==
    \/ \E k \in Runs : Clone(k)
    \/ \E k \in Runs : LoopExit(k)
    \/ \E k \in Runs : BreakPaid(k)
    \/ \E k \in Runs : Accrue(k)
    \/ \E k \in Runs : PayMinimums(k)
    \/ \E k \in Runs : PayExtra(k)
    \/ \E k \in Runs : EndMonth(k)
    \/ \E k \in Runs : Return(k)

Spec == Init /\ [][Next]_vars

PairSpec == InitPair /\ [][Next]_vars

WindowSpec == InitWindow /\ [][Next]_vars

\* the call is one synchronous loop: a step that can be taken is taken
FairSpec == InitFair /\ [][Next]_vars /\ WF_vars(Next)

RawSpec == InitRaw /\ [][Next]_vars /\ WF_vars(Next)

(***************************************************************************)
(* What the history says about a call.                                     *)
(***************************************************************************)
\* months whose step has finished
monthsStepped(k) == IF debtLog[k] = <<>> THEN 0 ELSE Len(debtLog[k]) - 1

\* months whose step has begun
monthsBegun(k) == IF pc[k] \in {"min", "extra"} THEN m[k] ELSE monthsStepped(k)

wellFormed(r, cap) ==
    /\ r.monthsToPayoff \in 0..cap
    /\ r.totalInterest >= 0
    /\ r.stalled \in BOOLEAN
    /\ Len(r.monthPlans) <= cap
    /\ \A i \in 1..Len(r.firstTargetIds) : r.firstTargetIds[i] \in 1..Len(accountsInput)

(***************************************************************************)
(* C1: simulate terminates within the cap and returns a result: the month  *)
(* step begins at most monthsCap times; every step of a call lowers a      *)
(* measure that is never negative and is bounded by the cap and the number *)
(* of accounts; and every call eventually returns, with a well-formed      *)
(* result.  This holds also when the debt grows every month.               *)
(***************************************************************************)
\* steps one month can take at most: accrue, minimums, one per ranked
\* account, end of month
monthWork == Len(accountsInput) + 3

monthsLeft(k) == Max(0, monthsCap[k] - m[k] + 1)

\* an upper bound on the steps the call can still take
stepsLeft(k) ==
    CASE pc[k] = "init"  -> 3 + monthsCap[k] * monthWork
      [] pc[k] = "loop"  -> 2 + monthsLeft(k) * monthWork
      [] pc[k] = "min"   -> 2 + (monthsLeft(k) - 1) * monthWork + Len(st[k]) + 2
      [] pc[k] = "extra" -> 2 + (monthsLeft(k) - 1) * monthWork
                              + (Len(order[k]) + 1 - oi[k]) + 1
      [] pc[k] = "after" -> 1
      [] pc[k] = "done"  -> 0

RECURSIVE stepsLeftOf(_)
stepsLeftOf(R) ==
    IF R = {} THEN 0
    ELSE LET k == CHOOSE x \in R : TRUE IN stepsLeft(k) + stepsLeftOf(R \ {k})

C1_Terminates ==
    /\ [](\A k \in Runs :
            /\ monthsBegun(k) <= monthsCap[k]
            /\ stepsLeft(k) >= 0
            /\ pc[k] = "done" => wellFormed(result[k], monthsCap[k]))
    /\ [][stepsLeftOf(Runs)' < stepsLeftOf(Runs)]_vars
    /\ <>(\A k \in Runs : pc[k] = "done")

\* a finished run of at least two months, no extra, whose debt grew every month
C1_Witness ==
    /\ pc[1] = "done"
    /\ extraMonthly[1] = 0
    /\ monthsCap[1] >= 2
    /\ monthsStepped(1) = monthsCap[1]
    /\ \A j \in 1..monthsStepped(1) : debtLog[1][j + 1] > debtLog[1][j]

(***************************************************************************)
(* C2: conservation: in every recorded month row, the remaining debt is    *)
(* the debt before that month's step plus the row's interest minus the     *)
(* row's total paid, and total paid is minimums plus extra.                *)
(***************************************************************************)
C2_Conservation ==
    \A k \in Runs : \A i \in 1..Len(monthPlans[k]) :
        LET row == monthPlans[k][i]
        IN /\ row.monthIndex \in 1..monthsStepped(k)
           /\ row.totalPaid = row.totalMin + row.totalExtra
           /\ row.remainingDebt =
                 debtLog[k][row.monthIndex] + row.totalInterest - row.totalPaid

\* a second recorded month with interest, minimums and extra all positive
C2_Witness ==
    /\ Len(monthPlans[1]) >= 2
    /\ monthPlans[1][2].totalInterest > 0
    /\ monthPlans[1][2].totalMin > 0
    /\ monthPlans[1][2].totalExtra > 0
    /\ monthPlans[1][2].remainingDebt > 0

(***************************************************************************)
(* C3: zero-debt idempotence: when every input balance is zero the result  *)
(* is 0 months, no rows, no interest and not stalled, for either style,    *)
(* any extra and any cap.                                                  *)
(***************************************************************************)
allZero(input) == \A i \in 1..Len(input) : input[i].balance = 0

C3_ZeroDebt ==
    \A k \in Runs :
        (pc[k] = "done" /\ allZero(accountsInput)) =>
            /\ result[k].monthsToPayoff = 0
            /\ result[k].monthPlans = <<>>
            /\ result[k].totalInterest = 0
            /\ result[k].stalled = FALSE

\* two zero-balance accounts with a positive minimum, cap 0, extra set
C3_Witness ==
    /\ pc[1] = "done"
    /\ Len(accountsInput) = 2
    /\ allZero(accountsInput)
    /\ \A i \in 1..Len(accountsInput) : accountsInput[i].minPay > 0
    /\ monthsCap[1] = 0
    /\ extraMonthly[1] > 0

(***************************************************************************)
(* C4: determinism: two calls with the same accounts, style, extra, cap    *)
(* and window hold identical state whenever they are at the same point of  *)
(* the loop (so identical balances every month), and return identical      *)
(* results.                                                                *)
(***************************************************************************)
sameInputs(j, k) ==
    /\ style[j] = style[k]
    /\ extraMonthly[j] = extraMonthly[k]
    /\ monthsCap[j] = monthsCap[k]
    /\ wantMonths[j] = wantMonths[k]

position(k) == <<pc[k], m[k], oi[k]>>

runState(k) ==
    <<st[k], initialOrder[k], totalInterest[k], monthsToPayoff[k], monthPlans[k],
      stalled[k], interestById[k], allocations[k], totalMin[k], totalExtra[k],
      extraLeft[k], order[k], result[k], debtLog[k]>>

sameButBalance(s, t) ==
    /\ Len(s) = Len(t)
    /\ \A i \in 1..Len(s) :
        /\ s[i].id = t[i].id
        /\ s[i].apr = t[i].apr
        /\ s[i].minPay = t[i].minPay

C5_Frame ==
    /\ [][accountsInput' = accountsInput]_vars
    /\ [](\A k \in Runs :
            pc[k] # "init" => sameButBalance(st[k], cloneAccounts(accountsInput)))

\* a finished run whose working balance differs from the input balance
C5_Witness ==
    /\ pc[1] = "done"
    /\ Len(st[1]) = Len(accountsInput)
    /\ \E i \in 1..Len(st[1]) : st[1][i].balance # accountsInput[i].balance
    /\ monthsStepped(1) >= 2

(***************************************************************************)
(* C6: rank returns exactly the ids of the accounts of its list whose      *)
(* balance is above 0.00001, each once, and the list it was given (the     *)
(* caller's list, the working copy) keeps its order.                       *)
(***************************************************************************)
idsOf(L) == [i \in 1..Len(L) |-> L[i].id]

\* the lists rank is applied to: the caller's list (line 1467), the clone
\* (line 280) and each month's balances after the minimums (line 330)
rankedLists(k) ==
    IF pc[k] = "init" THEN {accountsInput}
    ELSE IF (pc[k] = "loop" /\ m[k] = 1) \/ (pc[k] = "extra" /\ oi[k] = 1)
         THEN {st[k]}
         ELSE {}

rankIsExact(L, sty) ==
    LET r == rankAccounts(L, sty)
    IN /\ {r[i] : i \in 1..Len(r)} =
              {L[i].id : i \in {j \in 1..Len(L) : L[j].balance > EPS}}
       /\ \A i, j \in 1..Len(r) : r[i] = r[j] => i = j

C6_RankExact ==
    \A k \in Runs :
        /\ \A L \in rankedLists(k) : \A sty \in Styles : rankIsExact(L, sty)
        /\ pc[k] # "init" => idsOf(st[k]) = idsOf(cloneAccounts(accountsInput))
        /\ pc[k] # "init" =>
              initialOrder[k] = rankAccounts(cloneAccounts(accountsInput), style[k])

\* month 2 ranks one of two accounts: the other was paid down to nothing
C6_Witness ==
    /\ pc[1] = "extra"
    /\ m[1] = 2
    /\ Len(st[1]) = 2
    /\ Len(order[1]) = 1
    /\ \E i \in 1..Len(st[1]) : st[1][i].balance = 0 /\ accountsInput[i].balance > CENT

(***************************************************************************)
(* C7: avalanche ranks by descending apr and, at equal apr, by descending  *)
(* balance: of two returned accounts the earlier has the higher rate, or   *)
(* the same rate and at least the balance of the later.                    *)
(***************************************************************************)
acctOf(L, id) == L[findIndex(L, id)]

avalancheSorted(L) ==
    LET r == rankAccounts(L, "avalanche")
    IN \A i, j \in 1..Len(r) :
        i < j =>
            LET a == acctOf(L, r[i])
                b == acctOf(L, r[j])
            IN a.apr > b.apr \/ (a.apr = b.apr /\ a.balance >= b.balance)

C7_Avalanche == \A k \in Runs : \A L \in rankedLists(k) : avalancheSorted(L)

\* an avalanche month whose order reverses two accounts of equal rate
C7_Witness ==
    /\ pc[1] = "extra"
    /\ style[1] = "avalanche"
    /\ Len(st[1]) = 2
    /\ order[1] = <<st[1][2].id, st[1][1].id>>
    /\ st[1][1].apr = st[1][2].apr
    /\ st[1][1].balance < st[1][2].balance

(***************************************************************************)
(* C8: snowball ranks by ascending balance and, at equal balance, by       *)
(* descending apr.                                                         *)
(***************************************************************************)
snowballSorted(L) ==
    LET r == rankAccounts(L, "snowball")
    IN \A i, j \in 1..Len(r) :
        i < j =>
            LET a == acctOf(L, r[i])
                b == acctOf(L, r[j])
            IN a.balance < b.balance \/ (a.balance = b.balance /\ a.apr >= b.apr)

C8_Snowball == \A k \in Runs : \A L \in rankedLists(k) : snowballSorted(L)

\* a snowball start whose order reverses two accounts of equal balance
C8_Witness ==
    /\ pc[1] = "loop"
    /\ style[1] = "snowball"
    /\ Len(st[1]) = 2
    /\ initialOrder[1] = <<st[1][2].id, st[1][1].id>>
    /\ st[1][1].balance = st[1][2].balance
    /\ st[1][1].apr < st[1][2].apr

(***************************************************************************)
(* C9 as stated: for every ordering of the same accounts rank returns the  *)
(* same sequence of ids: the order simulate got from rank (at the start,   *)
(* in each month) is the one rank returns for every reordering of the      *)
(* accounts.  It fails for two accounts of equal apr and equal balance,    *)
(* which the comparator does not separate: the stable sort leaves them in  *)
(* input order.                                                            *)
(***************************************************************************)
injections(n) == {p \in [1..n -> 1..n] : \A i, j \in 1..n : p[i] = p[j] => i = j}

permuted(L, p) == [i \in 1..Len(L) |-> L[p[i]]]

keysOf(L, r) == [i \in 1..Len(r) |-> <<acctOf(L, r[i]).apr, acctOf(L, r[i]).balance>>]

distinctKeys(L) ==
    \A i, j \in 1..Len(L) :
        (i # j /\ L[i].balance > EPS /\ L[j].balance > EPS) =>
            (L[i].apr # L[j].apr \/ L[i].balance # L[j].balance)

C9_AnyOrderSameIds ==
    \A k \in Runs :
        /\ (pc[k] = "loop" /\ m[k] = 1) =>
              \A p \in injections(Len(st[k])) :
                  rankAccounts(permuted(st[k], p), style[k]) = initialOrder[k]
        /\ (pc[k] = "extra" /\ oi[k] = 1) =>
              \A p \in injections(Len(st[k])) :
                  rankAccounts(permuted(st[k], p), style[k]) = order[k]

(***************************************************************************)
(* C9 as amended: for every ordering of the same accounts rank returns the *)
(* same sequence of (apr, balance) keys, and the same sequence of ids when *)
(* no two ranked accounts have both the same apr and the same balance;     *)
(* ranked accounts equal in both come out in input order.                  *)
(***************************************************************************)
rankOrderIndependent(L, sty) ==
    \A p \in injections(Len(L)) :
        LET q == permuted(L, p)
            r == rankAccounts(L, sty)
            t == rankAccounts(q, sty)
        IN /\ keysOf(q, t) = keysOf(L, r)
           /\ distinctKeys(L) => t = r
           /\ \A i, j \in 1..Len(t) :
                (i < j /\ keysOf(q, t)[i] = keysOf(q, t)[j]) =>
                    findIndex(q, t[i]) < findIndex(q, t[j])

C9_OrderIndependentUpToTies ==
    \A k \in Runs : \A L \in rankedLists(k) : \A sty \in Styles :
        rankOrderIndependent(L, sty)

\* a month's ranking of two accounts with different keys, against input order
C9_Witness ==
    /\ pc[1] = "extra"
    /\ m[1] = 2
    /\ Len(st[1]) = 2
    /\ distinctKeys(st[1])
    /\ order[1] = <<st[1][2].id, st[1][1].id>>

(***************************************************************************)
(* C10: on a run that ends paid off, monthsToPayoff is the first month     *)
(* after whose step the total debt is at most 0.01, it is 0 exactly when   *)
(* the debt was at most 0.01 before month 1, and no month is stepped from  *)
(* a debt of at most 0.01.                                                 *)
(***************************************************************************)
C10_FirstPaidMonth ==
    \A k \in Runs :
        (pc[k] = "done" /\ totalDebtNow(st[k]) <= CENT) =>
            LET n == monthsStepped(k)
            IN /\ result[k].monthsToPayoff = n
               /\ debtLog[k][n + 1] <= CENT
               /\ \A j \in 1..n : debtLog[k][j] > CENT
               /\ (result[k].monthsToPayoff = 0) <=> (debtLog[k][1] <= CENT)

\* paid off by the step of month 2, with a small balance left over
C10_Witness ==
    /\ pc[1] = "done"
    /\ result[1].monthsToPayoff = 2
    /\ totalDebtNow(st[1]) <= CENT
    /\ totalDebtNow(st[1]) > 0
    /\ monthsCap[1] > 2

(***************************************************************************)
(* C11: cap exhaustion: a call that has stepped monthsCap months returns   *)
(* monthsToPayoff = monthsCap; when the debt is still above 0.01 after the *)
(* step of month monthsCap the result has stalled = TRUE; when the debt is *)
(* at most 0.01 at the return (so also when payoff is reached exactly in   *)
(* month monthsCap) the return leaves stalled as the months left it: the   *)
(* cap rule does not set it.                                               *)
(***************************************************************************)
C11_CapExhaustion ==
    /\ [](\A k \in Runs :
            (pc[k] = "done" /\ monthsStepped(k) = monthsCap[k]) =>
                /\ result[k].monthsToPayoff = monthsCap[k]
                /\ totalDebtNow(st[k]) > CENT => result[k].stalled)
    /\ [][\A k \in Runs :
            (pc[k] = "after" /\ pc'[k] = "done" /\ totalDebtNow(st[k]) <= CENT) =>
                /\ stalled'[k] = stalled[k]
                /\ result'[k].stalled = stalled[k]]_vars

\* the cap of two months is used up by a call that paid in month 1 and
\* still has debt, so only the cap rule can have set the flag
C11_Witness ==
    /\ pc[1] = "done"
    /\ monthsCap[1] = 2
    /\ monthsStepped(1) = 2
    /\ totalDebtNow(st[1]) > CENT
    /\ Len(result[1].monthPlans) >= 1
    /\ result[1].monthPlans[1].totalPaid > EPS
    /\ result[1].stalled

(***************************************************************************)
(* C12: month-1 stall detection: the step that ends month 1 sets stalled   *)
(* when some input balance is above 0.01 and the month's minimums plus     *)
(* extra are at most 0.00001, and leaves it alone when they are above;     *)
(* the step that ends a later month never changes it; a set flag stays set *)
(* and is the one returned; with such an input every cap of at least 1     *)
(* steps month 1, so a result whose first row paid nothing is stalled.     *)
(***************************************************************************)
inputHasDebt == \E i \in 1..Len(accountsInput) : accountsInput[i].balance > CENT

endsMonth(k) == pc[k] = "extra" /\ pc'[k] # "extra"

C12_MonthOneStall ==
    /\ [][\A k \in Runs :
            /\ endsMonth(k) =>
                stalled'[k] = IF m[k] = 1 /\ inputHasDebt /\ totalMin[k] + totalExtra[k] <= EPS
                              THEN TRUE ELSE stalled[k]
            /\ (endsMonth(k) /\ m[k] = 1 /\ totalMin[k] + totalExtra[k] > EPS) => ~stalled'[k]
            /\ (stalled[k] /\ pc[k] # "init") => stalled'[k]]_vars
    /\ [](\A k \in Runs :
            pc[k] = "done" =>
                /\ result[k].stalled = stalled[k]
                /\ (inputHasDebt /\ monthsCap[k] >= 1) => monthsStepped(k) >= 1
                /\ (inputHasDebt /\ Len(result[k].monthPlans) >= 1
                        /\ result[k].monthPlans[1].totalPaid <= EPS) => result[k].stalled)

\* month 1 has ended with nothing paid on an input with debt, the flag is
\* set and months are left under the cap
C12_Witness ==
    /\ pc[1] = "loop"
    /\ m[1] = 2
    /\ monthsCap[1] > 2
    /\ inputHasDebt
    /\ Len(monthPlans[1]) = 1
    /\ monthPlans[1][1].totalPaid = 0
    /\ stalled[1]

(***************************************************************************)
(* C13: the stall scenario: a call on one account with a balance above     *)
(* 0.01, a positive apr, no minimum and no extra (500 at 20% is one) has   *)
(* stalled set once month 1 has ended, its balance is strictly larger      *)
(* after every month than before it, and it runs to the cap: it returns,   *)
(* after monthsCap months, monthsToPayoff = monthsCap and stalled = TRUE.  *)
(***************************************************************************)
stallCase(k) ==
    /\ Len(accountsInput) = 1
    /\ accountsInput[1].balance > CENT
    /\ accountsInput[1].apr > 0
    /\ accountsInput[1].minPay = 0
    /\ extraMonthly[k] = 0

C13_StallScenario ==
    /\ [](\A k \in Runs :
            (stallCase(k) /\ pc[k] # "init") =>
                /\ monthsStepped(k) >= 1 => stalled[k]
                /\ \A j \in 1..monthsStepped(k) : debtLog[k][j + 1] > debtLog[k][j]
                /\ monthsStepped(k) >= 1 => st[k][1].balance > accountsInput[1].balance
                /\ pc[k] = "done" =>
                    /\ monthsStepped(k) = monthsCap[k]
                    /\ result[k].monthsToPayoff = monthsCap[k]
                    /\ result[k].stalled)
    /\ <>(\A k \in Runs :
            stallCase(k) => (pc[k] = "done" /\ result[k].monthsToPayoff = monthsCap[k]))

\* the account of 500 at 20% after a run of two months under a cap of two
C13_Witness ==
    /\ stallCase(1)
    /\ accountsInput[1].balance = 50000000
    /\ accountsInput[1].apr = 20
    /\ pc[1] = "done"
    /\ monthsCap[1] = 2
    /\ debtLog[1] = <<50000000, 50833333, 51680555>>
    /\ result[1].stalled

(***************************************************************************)
(* C14: monotonic decrease: for an account whose balance was above 0.01 at *)
(* the top of the month, when its minimum_payment plus the extra allotted  *)
(* to it in the month is more than the interest it accrued in the month,   *)
(* its balance after the month is strictly lower than at the top of it.    *)
(***************************************************************************)
\* the minimums and the extra of the month of startBal have been paid
monthPaid(k) ==
    /\ \/ pc[k] \in {"loop", "after", "done"}
       \/ pc[k] = "extra" /\ (oi[k] > Len(order[k]) \/ extraLeft[k] <= EPS)
    /\ monthsBegun(k) >= 1

C14_MonotonicDecrease ==
    \A k \in Runs :
        monthPaid(k) =>
            \A i \in 1..Len(st[k]) :
                (/\ startBal[k][i] > CENT
                 /\ allocations[k][i].accountId = st[k][i].id
                 /\ st[k][i].minPay + allocations[k][i].extra > interestById[k][i]) =>
                    st[k][i].balance < startBal[k][i]

\* a month in which an account's minimum is above its whole balance and
\* another is paid more extra than its interest, both lower than at the top
C14_Witness ==
    /\ pc[1] \in {"loop", "after"}
    /\ monthsStepped(1) = 2
    /\ Len(st[1]) = 2
    /\ startBal[1][1] > CENT
    /\ st[1][1].minPay > startBal[1][1] + interestById[1][1]
    /\ st[1][1].balance = 0
    /\ st[1][2].minPay = 0
    /\ allocations[1][2].extra > interestById[1][2]
    /\ interestById[1][2] > 0
    /\ st[1][2].balance < startBal[1][2]

(***************************************************************************)
(* C15 as stated: the extra follows the ranking recomputed in the month on *)
(* the balances left by the month's accrual and minimums, and each step of *)
(* the walk pays the next account of that order min(remaining extra,       *)
(* balance), so an account has extra in a month only if every account      *)
(* ranked before it in that month's order ends the month at or below 0.01. *)
(***************************************************************************)
\* the account of the working copy with this id, and its row of the month
acctById(k, id) == st[k][findIndex(st[k], id)]

rowOf(rows, id) == rows[CHOOSE i \in 1..Len(rows) : rows[i].accountId = id]

rowById(k, id) == rowOf(allocations[k], id)

walksOn(k) == pc[k] = "extra" /\ oi'[k] = oi[k] + 1

\* the order is the month's re-rank, and extra goes down the order
followsMonthRank(k) ==
    /\ (pc[k] = "extra" /\ oi[k] = 1) =>
            order[k] = rankAccounts(st[k], style[k])
    /\ (pc[k] = "extra" \/ (pc[k] \in {"loop", "after", "done"} /\ monthsStepped(k) >= 1)) =>
            \A j \in 1..Len(order[k]) :
                rowById(k, order[k][j]).extra > 0 =>
                    \A i \in 1..(j - 1) : acctById(k, order[k][i]).balance <= CENT

C15_EachPaidMin ==
    /\ [](\A k \in Runs : followsMonthRank(k))
    /\ [][\A k \in Runs :
            walksOn(k) =>
                LET id == order[k][oi[k]]
                    a == acctById(k, id)
                IN \A i \in 1..Len(st[k]) :
                        st'[k][i].balance =
                            IF st[k][i].id = id
                            THEN st[k][i].balance - Min(extraLeft[k], a.balance)
                            ELSE st[k][i].balance]_vars

(***************************************************************************)
(* C15 as amended: the same, with the step of the walk paying the next     *)
(* account of the order min(remaining extra, balance) when its balance is  *)
(* above 0.01 and nothing when the ranking lists it at or below 0.01; the  *)
(* walk goes on only while the pool is above 0.00001, and a step touches   *)
(* no other account.                                                       *)
(***************************************************************************)
C15_ExtraFollowsMonthRank ==
    /\ [](\A k \in Runs : followsMonthRank(k))
    /\ [][\A k \in Runs :
            walksOn(k) =>
                LET id == order[k][oi[k]]
                    a == acctById(k, id)
                    paid == IF a.balance > CENT THEN Min(extraLeft[k], a.balance) ELSE 0
                IN /\ extraLeft[k] > EPS
                   /\ \A i \in 1..Len(st[k]) :
                        st'[k][i].balance =
                            IF st[k][i].id = id THEN st[k][i].balance - paid
                            ELSE st[k][i].balance
                   /\ extraLeft'[k] = extraLeft[k] - paid
                   /\ totalExtra'[k] = totalExtra[k] + paid
                   /\ rowOf(allocations'[k], id).extra = rowById(k, id).extra + paid]_vars

\* month 2 is walked in the reverse of the initial order: the first of the
\* month's order is cleared and what is left of the pool goes to the second
C15_Witness ==
    /\ pc[1] = "extra"
    /\ m[1] = 2
    /\ Len(order[1]) = 2
    /\ Len(initialOrder[1]) = 2
    /\ order[1][1] = initialOrder[1][2]
    /\ order[1][2] = initialOrder[1][1]
    /\ rowById(1, order[1][1]).extra > 0
    /\ acctById(1, order[1][1]).balance = 0
    /\ rowById(1, order[1][2]).extra > 0

(***************************************************************************)
(* C16 as stated: the rollover scenario: with A (100, minimum 20) and      *)
(* B (5000, minimum 50), avalanche and an extra of 200, at every pair of   *)
(* rates, equal rates included, month 1 pays A out of the extra what its   *)
(* minimum left of it, so that A ends the month at about 0, and pays B the *)
(* rest of the extra, about 120.                                           *)
(***************************************************************************)
rolloverCase(k) ==
    /\ Len(accountsInput) = 2
    /\ accountsInput[1].balance = 10000000 /\ accountsInput[1].minPay = 2000000
    /\ accountsInput[2].balance = 500000000 /\ accountsInput[2].minPay = 5000000
    /\ style[k] = "avalanche"
    /\ extraMonthly[k] = 20000000

\* month 1 has been stepped and month 2 has not begun
monthOneDone(k) == pc[k] \in {"loop", "after", "done"} /\ monthsStepped(k) = 1

\* A is cleared by the extra and B has the rest of it
rolledOver(k) ==
    /\ st[k][1].balance <= CENT
    /\ rowById(k, 1).extra = 8000000 + interestById[k][1]
    /\ rowById(k, 2).extra = 20000000 - rowById(k, 1).extra
    /\ rowById(k, 2).extra > 11700000 /\ rowById(k, 2).extra < 12000000

C16_RolloverAnyRates ==
    \A k \in Runs : (rolloverCase(k) /\ monthOneDone(k)) => rolledOver(k)

(***************************************************************************)
(* C16 as amended: in that scenario month 1 clears A out of the extra and  *)
(* pays B the rest, about 120, when the apr of A is strictly higher than   *)
(* the apr of B; when the apr of B is higher than or equal to the apr of A *)
(* B is ranked first and is paid the whole extra of 200, A is paid no      *)
(* extra and ends month 1 at 80 plus its interest of the month.            *)
(***************************************************************************)
C16_RolloverByRate ==
    \A k \in Runs :
        (rolloverCase(k) /\ monthOneDone(k)) =>
            IF accountsInput[1].apr > accountsInput[2].apr
            THEN rolledOver(k)
            ELSE /\ rowById(k, 1).extra = 0
                 /\ st[k][1].balance = 8000000 + interestById[k][1]
                 /\ rowById(k, 2).extra = 20000000

\* A at 25% and B at 5%: A had 82.08333 out of the extra, B 117.91667
C16_Witness ==
    /\ rolloverCase(1)
    /\ monthOneDone(1)
    /\ accountsInput[1].apr = 25 /\ accountsInput[2].apr = 5
    /\ st[1][1].balance = 0
    /\ rowById(1, 1).extra = 8208333
    /\ rowById(1, 2).extra = 11791667

(***************************************************************************)
(* C17 as stated: strategy divergence: for A (100, 5%) and B (5000, 25%)   *)
(* the initial order is <<B, A>> under avalanche and <<A, B>> under        *)
(* snowball; and whenever one account of the input has both a strictly     *)
(* higher apr and a strictly larger balance than another, the initial      *)
(* order of a call differs from the one the other style gives on the same  *)
(* accounts.                                                               *)
(***************************************************************************)
otherStyle(sty) == IF sty = "avalanche" THEN "snowball" ELSE "avalanche"

\* what the call of the other style ranks at line 280 on the same input
otherInitialOrder(k) == rankAccounts(cloneAccounts(accountsInput), otherStyle(style[k]))

dominates(a, b) == a.apr > b.apr /\ a.balance > b.balance

divergenceCase ==
    /\ Len(accountsInput) = 2
    /\ accountsInput[1].balance = 10000000 /\ accountsInput[1].apr = 5
    /\ accountsInput[2].balance = 500000000 /\ accountsInput[2].apr = 25

scenarioDiverges(k) ==
    divergenceCase =>
        initialOrder[k] = IF style[k] = "avalanche" THEN <<2, 1>> ELSE <<1, 2>>

C17_DominanceDiverges ==
    \A k \in Runs :
        pc[k] # "init" =>
            /\ scenarioDiverges(k)
            /\ (\E i, j \in 1..Len(accountsInput) :
                    dominates(accountsInput[i], accountsInput[j])) =>
                        initialOrder[k] # otherInitialOrder(k)

(***************************************************************************)
(* C17 as amended: the same, for two accounts that both have a balance     *)
(* above 0.00001: an account at or below it is in neither order, so the    *)
(* orders of the two styles can be equal when the smaller account is one.  *)
(***************************************************************************)
C17_LiveDominanceDiverges ==
    \A k \in Runs :
        pc[k] # "init" =>
            /\ scenarioDiverges(k)
            /\ (\E i, j \in 1..Len(accountsInput) :
                    /\ dominates(accountsInput[i], accountsInput[j])
                    /\ accountsInput[j].balance > EPS) =>
                        initialOrder[k] # otherInitialOrder(k)

\* the call on A (100, 5%) and B (5000, 25%) under snowball: A first, and
\* B first for the other style
C17_Witness ==
    /\ divergenceCase
    /\ pc[1] = "done"
    /\ style[1] = "snowball"
    /\ result[1].firstTargetIds = <<1, 2>>
    /\ otherInitialOrder(1) = <<2, 1>>

(***************************************************************************)
(* C18: step order, accrual then minimum then extra: an account that had a *)
(* balance b above 0.01 at the top of the month and was allotted no extra  *)
(* in it accrued b * apr / 1200 and ends the month at that sum less        *)
(* min(minimum_payment, that sum); the account of 1000 at 24% with a       *)
(* minimum of 50 accrues 20 in month 1 and ends it at 970.                 *)
(***************************************************************************)
minimumOnlyCase ==
    /\ Len(accountsInput) = 1
    /\ accountsInput[1].balance = 100000000
    /\ accountsInput[1].apr = 24
    /\ accountsInput[1].minPay = 5000000

C18_AccrueThenMinimum ==
    \A k \in Runs :
        monthPaid(k) =>
            /\ \A i \in 1..Len(st[k]) :
                (startBal[k][i] > CENT /\ rowById(k, st[k][i].id).extra = 0) =>
                    LET grown == startBal[k][i]
                                    + TimesRate(startBal[k][i], monthlyRate(st[k][i].apr))
                    IN /\ interestById[k][i] = grown - startBal[k][i]
                       /\ st[k][i].balance = grown - Min(st[k][i].minPay, grown)
            /\ (minimumOnlyCase /\ extraMonthly[k] = 0 /\ monthOneDone(k)) =>
                /\ interestById[k][1] = 2000000
                /\ st[k][1].balance = 97000000

\* the account of 1000 at 24% with a minimum of 50 after month 1
C18_Witness ==
    /\ minimumOnlyCase
    /\ extraMonthly[1] = 0
    /\ monthOneDone(1)
    /\ startBal[1] = <<100000000>>
    /\ Len(monthPlans[1]) = 1
    /\ monthPlans[1][1].totalInterest = 2000000
    /\ monthPlans[1][1].totalMin = 5000000
    /\ monthPlans[1][1].remainingDebt = 97000000

(***************************************************************************)
(* C19: the window has no part in the simulation: two calls that differ    *)
(* only in wantMonths return the same monthsToPayoff, totalInterest,       *)
(* firstTargetIds and stalled, and their month rows are equal as far as    *)
(* both have them; the rows of a call are the first min(wantMonths, months *)
(* stepped) months, row i being month i.                                   *)
(***************************************************************************)
sameButWindow(j, k) ==
    /\ style[j] = style[k]
    /\ extraMonthly[j] = extraMonthly[k]
    /\ monthsCap[j] = monthsCap[k]
    /\ wantMonths[j] # wantMonths[k]

C19_WindowIndependent ==
    /\ \A j, k \in Runs :
        (sameButWindow(j, k) /\ pc[j] = "done" /\ pc[k] = "done") =>
            /\ result[j].monthsToPayoff = result[k].monthsToPayoff
            /\ result[j].totalInterest = result[k].totalInterest
            /\ result[j].firstTargetIds = result[k].firstTargetIds
            /\ result[j].stalled = result[k].stalled
            /\ \A i \in 1..Min(Len(result[j].monthPlans), Len(result[k].monthPlans)) :
                    result[j].monthPlans[i] = result[k].monthPlans[i]
    /\ \A k \in Runs :
        /\ Len(monthPlans[k]) = Min(wantMonths[k], monthsStepped(k))
        /\ \A i \in 1..Len(monthPlans[k]) :
            /\ monthPlans[k][i].monthIndex = i
            /\ monthPlans[k][i].remainingDebt = debtLog[k][i + 1]
        /\ pc[k] = "done" => result[k].monthPlans = monthPlans[k]

\* both calls have returned after two months, one with the row of month 1
\* and one with the rows of months 1 and 2
C19_Witness ==
    /\ pc[1] = "done" /\ pc[2] = "done"
    /\ sameButWindow(1, 2)
    /\ monthsStepped(1) = 2
    /\ Len(result[1].monthPlans) = 1
    /\ Len(result[2].monthPlans) = 2
    /\ result[2].monthPlans[1] = result[1].monthPlans[1]
    /\ result[1].totalInterest > 0

(***************************************************************************)
(* C20: the initial order is rank applied to the clamped starting          *)
(* accounts, it is there before month 1 is stepped, no later step of the   *)
(* call changes it, whatever the months' own orders become, and it is the  *)
(* firstTargetIds of the result.                                           *)
(***************************************************************************)
C20_InitialOrderFrozen ==
    /\ [](\A k \in Runs :
            pc[k] # "init" =>
                /\ initialOrder[k] = rankAccounts(cloneAccounts(accountsInput), style[k])
                /\ pc[k] = "done" => result[k].firstTargetIds = initialOrder[k])
    /\ [][\A k \in Runs : pc[k] # "init" => initialOrder'[k] = initialOrder[k]]_vars

\* a call returns the order of its start, of two accounts, after three
\* months the last of which ranked only one account
C20_Witness ==
    /\ pc[1] = "done"
    /\ monthsStepped(1) = 3
    /\ Len(result[1].firstTargetIds) = 2
    /\ Len(order[1]) = 1
    /\ Len(monthPlans[1]) >= 2
    /\ rankAccounts(st[1], style[1]) # result[1].firstTargetIds

(***************************************************************************)
(* C22 as stated: an input account with a balance of at most 0.00001 is    *)
(* treated as paid off: it is in no ranking of the call and is allotted no *)
(* extra, but every recorded month row lists it, with a minimum, an extra  *)
(* and a total of zero.                                                    *)
(***************************************************************************)
paidOffInputs == {i \in 1..Len(accountsInput) : accountsInput[i].balance <= EPS}

inSeq(s, x) == \E i \in 1..Len(s) : s[i] = x

rowsFor(rows, id) == {i \in 1..Len(rows) : rows[i].accountId = id}

\* not ranked, not paid, and still at its starting balance if it is kept
treatedAsPaid(k, id) ==
    /\ ~inSeq(initialOrder[k], id)
    /\ ~inSeq(order[k], id)
    /\ \A i \in rowsFor(allocations[k], id) :
        allocations[k][i].min = 0 /\ allocations[k][i].extra = 0 /\ allocations[k][i].total = 0
    /\ \A i \in 1..Len(st[k]) :
        st[k][i].id = id => st[k][i].balance = Max(0, accountsInput[id].balance)

C22_ListedWithZeros ==
    \A k \in Runs : \A id \in paidOffInputs :
        /\ treatedAsPaid(k, id)
        /\ \A j \in 1..Len(monthPlans[k]) :
            \E i \in rowsFor(monthPlans[k][j].allocations, id) :
                /\ monthPlans[k][j].allocations[i].min = 0
                /\ monthPlans[k][j].allocations[i].extra = 0
                /\ monthPlans[k][j].allocations[i].total = 0

(***************************************************************************)
(* C22 as amended: such an account is in no ranking of the call and is     *)
(* allotted no minimum and no extra; the clone drops it when its minimum   *)
(* is not positive and keeps it otherwise, with a zero row in the month's  *)
(* working list; no recorded month row lists it, the per-account list of a *)
(* recorded row has only the accounts paid more than 0.00001 in the month. *)
(***************************************************************************)
C22_PaidOffNotListed ==
    \A k \in Runs :
        /\ \A id \in paidOffInputs :
            /\ treatedAsPaid(k, id)
            /\ pc[k] # "init" =>
                (inSeq(idsOf(st[k]), id) <=> accountsInput[id].minPay > 0)
            /\ \A j \in 1..Len(monthPlans[k]) :
                rowsFor(monthPlans[k][j].allocations, id) = {}
        /\ \A j \in 1..Len(monthPlans[k]) :
            \A i \in 1..Len(monthPlans[k][j].allocations) :
                monthPlans[k][j].allocations[i].total > EPS

\* a returned row of a month in which the account without a balance had a
\* zero row in the working list and the other account was paid
C22_Witness ==
    /\ pc[1] = "done"
    /\ Len(accountsInput) = 2
    /\ paidOffInputs = {1}
    /\ Len(st[1]) = 2
    /\ Len(allocations[1]) = 2
    /\ allocations[1][1].total = 0
    /\ Len(result[1].monthPlans) >= 1
    /\ Len(result[1].monthPlans[1].allocations) = 1
    /\ result[1].monthPlans[1].allocations[1].accountId = 2

(***************************************************************************)
(* C24: unspent extra is dropped: the pool of every month starts at        *)
(* max(0, extraMonthly) whatever was left of the pool of the month before, *)
(* what is paid out of it and what is left of it add up to that amount, so *)
(* the month's totalExtra is at most max(0, extraMonthly), and the extra   *)
(* of the accounts of a month adds up to the month's totalExtra, in the    *)
(* working rows and in every recorded row.                                 *)
(***************************************************************************)
budget(k) == IF extraMonthly[k] > 0 THEN extraMonthly[k] ELSE 0

extraOf(rows) == sum([i \in 1..Len(rows) |-> rows[i].extra])

C24_ExtraDropped ==
    \A k \in Runs :
        /\ (pc[k] = "extra" /\ oi[k] = 1) =>
            (extraLeft[k] = budget(k) /\ totalExtra[k] = 0)
        /\ pc[k] = "extra" =>
            /\ extraLeft[k] + totalExtra[k] = budget(k)
            /\ totalExtra[k] <= budget(k)
            /\ extraOf(allocations[k]) = totalExtra[k]
        /\ \A j \in 1..Len(monthPlans[k]) :
            /\ monthPlans[k][j].totalExtra <= budget(k)
            /\ extraOf(monthPlans[k][j].allocations) = monthPlans[k][j].totalExtra

\* month 2 opens with the whole budget after a month 1 that could spend
\* none of it, every account being at or below 0.01
C24_Witness ==
    /\ pc[1] = "extra"
    /\ oi[1] = 1
    /\ m[1] = 2
    /\ extraMonthly[1] > 0
    /\ extraLeft[1] = extraMonthly[1]
    /\ Len(monthPlans[1]) >= 1
    /\ monthPlans[1][1].totalExtra = 0

(***************************************************************************)
(* C25: an account at or below 0.01 at the top of a month accrues nothing  *)
(* and is paid no minimum and no extra in the month, its balance is the    *)
(* same after the month; and no step of the call changes the balance of a  *)
(* working account that is at or below 0.01, so it keeps that balance to   *)
(* the end of the run.                                                     *)
(***************************************************************************)
C25_SmallBalanceKept ==
    /\ [](\A k \in Runs :
            /\ pc[k] \in {"min", "extra"} =>
                \A i \in 1..Len(st[k]) :
                    startBal[k][i] <= CENT =>
                        (interestById[k][i] = 0 /\ st[k][i].balance = startBal[k][i])
            /\ monthPaid(k) =>
                \A i \in 1..Len(st[k]) :
                    startBal[k][i] <= CENT =>
                        /\ interestById[k][i] = 0
                        /\ allocations[k][i].min = 0
                        /\ allocations[k][i].extra = 0
                        /\ allocations[k][i].total = 0
                        /\ st[k][i].balance = startBal[k][i])
    /\ [][\A k \in Runs :
            pc[k] # "init" =>
                /\ Len(st'[k]) = Len(st[k])
                /\ \A i \in 1..Len(st[k]) :
                    st[k][i].balance <= CENT => st'[k][i].balance = st[k][i].balance]_vars

\* an account of 0.006 is still at 0.006 after two months in which another
\* account was charged interest and paid
C25_Witness ==
    /\ pc[1] \in {"loop", "after"}
    /\ monthsStepped(1) = 2
    /\ Len(st[1]) = 2
    /\ startBal[1][1] = 600
    /\ st[1][1].balance = 600
    /\ st[1][1].minPay > 0
    /\ interestById[1][2] > 0
    /\ allocations[1][2].total > 0

(***************************************************************************)
(* C26: a call that paid more than 0.00001 in month 1 is not flagged       *)
(* during the run: stalled is false in every state before the return, and  *)
(* the result has stalled = TRUE only by the cap rule, with debt above     *)
(* 0.01 after monthsCap months and monthsToPayoff = monthsCap; the call on *)
(* one account whose minimum is below its monthly interest, with no extra, *)
(* is such a call and returns that result.                                 *)
(***************************************************************************)
paidInMonthOne(k) == Len(monthPlans[k]) >= 1 /\ monthPlans[k][1].totalPaid > EPS

neverConverges(k) ==
    /\ Len(accountsInput) = 1
    /\ accountsInput[1].balance > CENT
    /\ accountsInput[1].minPay > 0
    /\ accountsInput[1].minPay < TimesRate(accountsInput[1].balance, monthlyRate(accountsInput[1].apr))
    /\ extraMonthly[k] = 0

cappedOut(k) ==
    /\ pc[k] = "done"
    /\ result[k].stalled
    /\ result[k].monthsToPayoff = monthsCap[k]
    /\ monthsStepped(k) = monthsCap[k]
    /\ totalDebtNow(st[k]) > CENT

C28_NotStalledIsPaid ==
    \A k \in Runs :
        (pc[k] = "done" /\ ~result[k].stalled) =>
            /\ totalDebtNow(st[k]) <= CENT
            /\ result[k].monthsToPayoff = monthsStepped(k)
            /\ result[k].monthsToPayoff <= monthsCap[k]

\* a result that is not stalled, of a call paid off by its only month, the
\* month of the cap
C28_Witness ==
    /\ pc[1] = "done"
    /\ ~result[1].stalled
    /\ monthsCap[1] = 1
    /\ monthsStepped(1) = 1
    /\ debtLog[1][1] > CENT
    /\ totalDebtNow(st[1]) <= CENT

(***************************************************************************)
(* C29: stalled and payoff are mutually exclusive: a result with           *)
(* stalled = TRUE, set by the month-1 check or by the cap rule, has a      *)
(* total debt above 0.01 at the return.                                    *)
(***************************************************************************)
C29_StalledNotPaid ==
    \A k \in Runs :
        (pc[k] = "done" /\ result[k].stalled) => totalDebtNow(st[k]) > CENT

(***************************************************************************)
(* C30: progress guarantees payoff: when every account has an apr of 0 and *)
(* every account with a balance has a positive minimum, the call reaches a *)
(* total debt of at most 0.01 within max over the accounts of              *)
(* ceil(balance / minimum) months, and returns stalled = FALSE whenever    *)
(* monthsCap is at least that number, under either style and any extra    *)
(* of 0 or more.                                                           *)
(***************************************************************************)
ceilDiv(a, b) == (a + b - 1) \div b

zeroRateCase ==
    \A i \in 1..Len(accountsInput) :
        /\ accountsInput[i].apr = 0
        /\ accountsInput[i].balance > 0 => accountsInput[i].minPay > 0

\* the number of months the minimums alone need
monthsNeeded ==
    LET need == {IF accountsInput[i].balance > 0
                 THEN ceilDiv(accountsInput[i].balance, accountsInput[i].minPay)
                 ELSE 0 : i \in 1..Len(accountsInput)} \cup {0}
    IN CHOOSE n \in need : \A x \in need : x <= n

C30_ProgressPaysOff ==
    \A k \in Runs :
        (zeroRateCase /\ extraMonthly[k] >= 0 /\ monthsCap[k] >= monthsNeeded) =>
            /\ monthsStepped(k) <= monthsNeeded
            /\ pc[k] = "done" =>
                /\ totalDebtNow(st[k]) <= CENT
                /\ ~result[k].stalled

(***************************************************************************)
(* C23: two calls whose steps are interleaved in any order each return the *)
(* result the call returns when it runs alone, from the clone to the       *)
(* return with nothing in between; and no step of a call writes the        *)
(* caller's list or anything of the other call.                            *)
(***************************************************************************)
\* the sequence with the elements of f, built anew
asSeq(f) == [i \in 1..Len(f) |-> f[i]]

\* the extra loop of a month, run to its end
RECURSIVE walkExtra(_, _, _, _, _)
walkExtra(s, rows, ord, i, left) ==
    IF i > Len(ord) \/ left <= EPS
    THEN [s |-> asSeq(s), rows |-> asSeq(rows), left |-> left]
    ELSE LET ai == findIndex(s, ord[i])
             pay == IF ai = 0 THEN 0 ELSE extraPaid(left, s[ai])
         IN walkExtra(IF ai = 0 THEN s ELSE [s EXCEPT ![ai].balance = @ - pay],
                      IF ai = 0 THEN rows
                      ELSE [rows EXCEPT ![ai].extra = @ + pay, ![ai].total = @ + pay],
                      ord, i + 1, left - pay)

\* one month of the loop body, lines 299-348, run without a break
wholeMonth(s, sty, extra) ==
    LET interests == [i \in 1..Len(s) |-> accrued(s[i])]
        grown == [i \in 1..Len(s) |-> [s[i] EXCEPT !.balance = @ + interests[i]]]
        rows == [i \in 1..Len(s) |->
                    [accountId |-> grown[i].id, min |-> minPaid(grown[i]),
                     extra |-> 0, total |-> minPaid(grown[i])]]
        lowered == [i \in 1..Len(s) |-> [grown[i] EXCEPT !.balance = @ - rows[i].min]]
        walked == walkExtra(lowered, rows, rankAccounts(lowered, sty), 1, extraPool(extra))
    IN [s |-> walked.s, rows |-> walked.rows, interests |-> interests,
        tMin |-> sum([i \in 1..Len(s) |-> rows[i].min]),
        tExtra |-> extraPool(extra) - walked.left]

\* the arguments of call k
callOf(k) ==
    [accountsInput |-> accountsInput, style |-> style[k], extraMonthly |-> extraMonthly[k],
     monthsCap |-> monthsCap[k], wantMonths |-> wantMonths[k]]

\* lines 293-390 from the top of month mm on, run to the return
RECURSIVE aloneFrom(_, _, _, _, _, _)
aloneFrom(c, s, mm, interest, plans, flag) ==
    LET return(mtp) ==
            [monthsToPayoff |-> mtp, totalInterest |-> interest,
             firstTargetIds |-> rankAccounts(cloneAccounts(c.accountsInput), c.style),
             monthPlans |-> plans,
             stalled |-> flag \/ capStalled(s, mtp, c.monthsCap)]
    IN IF ~loopCond(mm, c.monthsCap) THEN return(c.monthsCap)
       ELSE IF allPaid(s) THEN return(mm - 1)
       ELSE LET w == wholeMonth(s, c.style, c.extraMonthly)
                flagged == flag \/ (mm = 1 /\ hadDebt(c.accountsInput)
                                        /\ ~hasProgress(w.tMin, w.tExtra))
                recorded == recordPlan(plans, c.wantMonths,
                                monthPlan(mm, w.rows, w.tMin, w.tExtra, w.interests, w.s))
            IN IF allPaid(w.s)
               THEN [monthsToPayoff |-> mm, totalInterest |-> interest + sum(w.interests),
                     firstTargetIds |-> rankAccounts(cloneAccounts(c.accountsInput), c.style),
                     monthPlans |-> recorded,
                     stalled |-> flagged]
               ELSE aloneFrom(c, w.s, mm + 1, interest + sum(w.interests), recorded, flagged)

\* simulatePayoff as one function of its arguments
simulatePayoff(c) == aloneFrom(c, cloneAccounts(c.accountsInput), 1, 0, <<>>, FALSE)

\* the result call k returns when nothing runs beside it
alone(k) == simulatePayoff(callOf(k))

\* everything a call holds
ownState(k) == <<runState(k), position(k), startBal[k]>>

C23_Isolated ==
    /\ [](\A k \in Runs : pc[k] = "done" => result[k] = alone(k))
    /\ [][/\ accountsInput' = accountsInput
          /\ \A j, k \in Runs :
                (j # k /\ ownState(j)' # ownState(j)) => ownState(k)' = ownState(k)]_vars

\* the avalanche call has returned while the snowball call on the same two
\* accounts is in its second month, and the two order the accounts differently
C23_Witness ==
    /\ Runs = {1, 2}
    /\ style[1] = "avalanche" /\ style[2] = "snowball"
    /\ pc[1] = "done"
    /\ pc[2] = "extra" /\ m[2] = 2
    /\ Len(initialOrder[1]) = 2
    /\ initialOrder[1] # initialOrder[2]
    /\ result[1] = alone(1)
    /\ result[1].monthsToPayoff = 2
    /\ extraMonthly[1] > 0

(***************************************************************************)
(* C21: invalid input is normalized, never rejected.                       *)
(***************************************************************************)
hasNegative(c) ==
    \/ c.extraMonthly < 0
    \/ \E i \in 1..Len(c.accountsInput) :
          \/ c.accountsInput[i].balance < 0
          \/ c.accountsInput[i].apr < 0
          \/ c.accountsInput[i].minPay < 0

\* the same call with each negative value replaced by 0
zeroedNegatives(c) ==
    [c EXCEPT !.extraMonthly = Max(0, @),
              !.accountsInput =
                  [i \in 1..Len(@) |->
                      [id |-> @[i].id, balance |-> Max(0, @[i].balance),
                       apr |-> Max(0, @[i].apr), minPay |-> Max(0, @[i].minPay)]]]

sameOutcome(r, q) ==
    /\ r.monthsToPayoff = q.monthsToPayoff
    /\ r.totalInterest = q.totalInterest
    /\ r.firstTargetIds = q.firstTargetIds
    /\ r.monthPlans = q.monthPlans

\* C21: a call on accounts with a negative balance, rate or minimum, or with
\* a negative extra, returns, and what it returns has the monthsToPayoff,
\* totalInterest, firstTargetIds and month rows of the call in which each
\* negative value is replaced by 0.
C21_NegativesAsZero ==
    /\ [](\A k \in Runs :
            (pc[k] = "done" /\ hasNegative(callOf(k)))
                => sameOutcome(result[k], simulatePayoff(zeroedNegatives(callOf(k)))))
    /\ <>(\A k \in Runs : pc[k] = "done")

\* a call with a negative extra on an account with a negative balance, kept
\* for its minimum, and a valid account has stepped through its months
C21_Witness ==
    /\ pc[1] = "done"
    /\ extraMonthly[1] < 0
    /\ Len(accountsInput) = 2
    /\ accountsInput[1].balance < 0
    /\ accountsInput[1].minPay > 0
    /\ accountsInput[2].balance > 0
    /\ accountsInput[2].apr > 0
    /\ result[1].monthsToPayoff > 0
    /\ Len(result[1].monthPlans) > 0
    /\ result[1].totalInterest > 0

(***************************************************************************)
(* C27: balances and the extra pool never go below zero.                   *)
(***************************************************************************)
nonNegative(k) ==
    /\ \A i \in 1..Len(st[k]) : st[k][i].balance >= 0
    /\ extraLeft[k] >= 0

\* step 2 of call k: each minimum paid is within the balance it is taken from
minimumsWithin(k) ==
    (pc[k] = "min" /\ pc'[k] = "extra") =>
        \A i \in 1..Len(st[k]) :
            /\ allocations'[k][i].min >= 0
            /\ allocations'[k][i].min <= st[k][i].balance
            /\ st'[k][i].balance = st[k][i].balance - allocations'[k][i].min

\* one extra payment of call k: it is within the pool and within the balance
\* of the account that gets it
extraWithin(k) ==
    (pc[k] = "extra" /\ pc'[k] = "extra" /\ oi'[k] = oi[k] + 1) =>
        /\ extraLeft[k] - extraLeft'[k] >= 0
        /\ extraLeft[k] - extraLeft'[k] <= extraLeft[k]
        /\ \A i \in 1..Len(st[k]) :
              /\ st[k][i].balance - st'[k][i].balance >= 0
              /\ st[k][i].balance - st'[k][i].balance <= st[k][i].balance
              /\ st[k][i].balance - st'[k][i].balance <= extraLeft[k] - extraLeft'[k]

\* C27: in every state of a call, after accrual, after the minimums and after
\* each extra payment, every working balance is >= 0 and the extra pool is
\* >= 0; no minimum or extra payment exceeds the balance it is applied to and
\* no extra payment exceeds the pool that is left.
C27_NeverNegative ==
    /\ [](\A k \in Runs : nonNegative(k))
    /\ [][\A k \in Runs : minimumsWithin(k) /\ extraWithin(k)]_vars

\* on unchecked input, an extra payment has just taken an account to exactly
\* zero and left part of the pool
C27_Witness ==
    /\ pc[1] = "extra"
    /\ oi[1] > 1
    /\ extraLeft[1] > 0
    /\ \E i \in 1..Len(accountsInput) : accountsInput[i].balance < 0
    /\ Len(allocations[1]) = Len(st[1])
    /\ \E i \in 1..Len(st[1]) :
          /\ st[1][i].balance = 0
          /\ allocations[1][i].extra > 0
          /\ allocations[1][i].min > 0

====
